---- MODULE Spec2Model ----
(***************************************************************************)
(* paca-core download engine: download_model and its helpers               *)
(* (src/paca-core/src/download/mod.rs), run against a remote registry and  *)
(* a local cache directory.                                                *)
(*                                                                         *)
(* The cache directory holds, per artifact file, a content file and a      *)
(* validator sidecar (<name>.etag), and one manifest sidecar.  A file on    *)
(* disk is an option: Absent, or Present(contents).  Text (entity tags,    *)
(* file bytes, the manifest body) is a sequence, so the empty string is    *)
(* <<>> and is different from an absent file.                              *)
(*                                                                         *)
(* Spec is the engine, download_model run again and again against a        *)
(* registry that changes between runs.  The helpers that work on text      *)
(* (shard_count, fetch_manifest, ModelRef, cache_filename,                 *)
(* default_headers) each have a specification of their own, which draws    *)
(* the arguments of one call and applies the function: SpecShardCount,     *)
(* SpecManifest, SpecRef, SpecCacheName, SpecEnv.                          *)
(***************************************************************************)
EXTENDS Integers, Sequences, FiniteSets, TLC

\* ------------------------------------------------------------------ bounds
NumFiles == 2        \* artifact files (shards) the registry can list
NumVersions == 2     \* remote versions of an artifact file
MaxSize == 2         \* largest artifact size, in bytes

Files == 1..NumFiles
Versions == 1..NumVersions

\* ------------------------------------------------------- files as options
Absent == <<>>
Present(x) == <<x>>
Exists(o) == o # <<>>
Contents(o) == o[1]

\* ------------------------------------------------------------ the registry
\* Size in bytes of version v of an artifact (the size the manifest declares).
SizeOf(v) == MaxSize - (v % 2)

\* The bytes of version v: byte k of version v is <<v, k>>.
BodyOf(v) == [k \in 1..SizeOf(v) |-> <<v, k>>]

\* The x-linked-etag header value of version v.
ETagOf(v) == <<v>>

VARIABLES
  remote,        \* remote[f]: the version of file f the registry serves
  nfiles,        \* how many artifact files the tag resolves to
  linked,        \* whether the registry's HEAD answers carry x-linked-etag
  probe_ok,      \* whether its HEAD answers have a success or redirect status
  content,       \* content[f]: the content file of f in the cache directory
  etagFile,      \* etagFile[f]: the validator sidecar of f
  manifestFile,  \* the manifest sidecar
  pc,            \* position inside download_model
  manifest,      \* the Manifest fetch_manifest returned
  i,             \* index of the current entry of manifest.gguf_files
  remote_etag,   \* the entity tag fetch_etag returned for the current file
  resume_from,   \* download_file's resume_from argument
  response,      \* the GET response being streamed
  paths,         \* the result list
  error,         \* the step that failed, "" while none has
  log,           \* requests and sidecar writes of the current invocation
  last,          \* how the latest finished invocation ended
  empty_at_start,\* whether the current invocation found the cache empty
  input,         \* the arguments of the helper function under study
  output         \* what that function returned, NotCalled before the call

vars == <<remote, nfiles, linked, probe_ok, content, etagFile, manifestFile, pc,
          manifest, i, remote_etag, resume_from, response, paths, error, log,
          last, empty_at_start, input, output>>

cache == <<content, etagFile, manifestFile>>
registry == <<remote, nfiles, linked, probe_ok>>
locals == <<manifest, i, remote_etag, resume_from, response, paths>>
pure == <<input, output>>

CacheEmpty ==
  /\ \A f \in Files : ~Exists(content[f]) /\ ~Exists(etagFile[f])
  /\ ~Exists(manifestFile)

NoManifest == [gguf_files |-> <<>>, raw_json |-> <<>>]
NoResponse == [is_partial |-> FALSE, start_pos |-> 0, body |-> <<>>]
NoLast == [failed |-> 0, saved |-> FALSE, same |-> FALSE]
NotCalled == [fn |-> "", value |-> <<>>]

Init ==
  /\ remote = [f \in Files |-> 1]
  /\ nfiles \in 0..NumFiles
  /\ linked \in BOOLEAN
  /\ probe_ok = TRUE
  /\ content = [f \in Files |-> Absent]
  /\ etagFile = [f \in Files |-> Absent]
  /\ manifestFile = Absent
  /\ pc = "idle"
  /\ manifest = NoManifest
  /\ i = 0
  /\ remote_etag = <<>>
  /\ resume_from = 0
  /\ response = NoResponse
  /\ paths = <<>>
  /\ error = ""
  /\ log = <<>>
  /\ last = NoLast
  /\ empty_at_start = TRUE
  /\ input = <<>>
  /\ output = NotCalled

\* ------------------------------------------------------- pure helpers
\* cache_filename: the cache name of an artifact file.  Artifact files are
\* numbered, and the cache name of file f is f.
cache_filename(gguf_file) == gguf_file

\* fetch_manifest's result for the registry's current state: one GgufFile
\* per listed artifact file, in ascending filename order, with the declared
\* size; raw_json is the manifest response's body.
GgufFile(f) == [filename |-> f, size |-> SizeOf(remote[f])]

RemoteManifest ==
  [gguf_files |-> [k \in 1..nfiles |-> GgufFile(k)],
   raw_json |-> <<nfiles, remote[1]>>]

\* fetch_etag: the x-linked-etag header of the HEAD response, "" without it.
ProbedETag(f) == IF linked THEN ETagOf(remote[f]) ELSE <<>>

\* Bytes that are no UTF-8 text, and the test for them.
NotUtf8 == <<0>>
IsUtf8(bytes) == \A k \in 1..Len(bytes) : bytes[k] # 0

\* fs::read_to_string: the text of the file, Absent when the file is absent
\* or does not hold text.
read_to_string(file) ==
  IF Exists(file) /\ IsUtf8(Contents(file)) THEN Present(Contents(file)) ELSE Absent

\* Mutant of etag_matches: unwrap_or(true), a sidecar that cannot be read
\* counts as a match.
etag_matches_unless_unreadable(filename, etag) ==
  Exists(read_to_string(etagFile[filename])) =>
    Contents(read_to_string(etagFile[filename])) = etag

\* etag_matches: the sidecar is readable and its text equals remote_etag.
etag_matches(filename, etag) ==
  /\ Exists(read_to_string(etagFile[filename]))
  /\ Contents(read_to_string(etagFile[filename])) = etag

\* Mutant of existing_size: the length is never read.
existing_size_unread(filename) == 0

\* fs::metadata(&file_path).map(|m| m.len()).unwrap_or(0)
existing_size(filename) ==
  IF Exists(content[filename]) THEN Len(Contents(content[filename])) ELSE 0

\* The Range header download_file sends: bytes=<resume_from>- when
\* resume_from > 0, none otherwise.
NoRange == -1
RangeHeader(from) == IF from > 0 THEN from ELSE NoRange

\* The current entry of manifest.gguf_files and its cache name.
gguf_file == manifest.gguf_files[i]
filename == cache_filename(gguf_file.filename)

\* The statuses the server may answer a GET with: 200 always, 206 only to a
\* satisfiable Range request.
PartialAnswers(f, range) ==
  IF range # NoRange /\ range < SizeOf(remote[f]) THEN {FALSE, TRUE} ELSE {FALSE}

\* The body of the answer: the rest of the file from the range's offset on a
\* 206, the whole file on a 200.
AnswerBody(f, range, is_partial) ==
  IF is_partial
    THEN SubSeq(BodyOf(remote[f]), range + 1, SizeOf(remote[f]))
    ELSE BodyOf(remote[f])

\* Mutant of OpenDestination: an existing destination is never truncated.
OpenKeeping(old, is_partial) == IF Exists(old) THEN old ELSE Present(<<>>)

\* The destination after download_file opened it: append keeps the bytes,
\* File::create truncates or creates.
OpenDestination(old, is_partial) == IF is_partial THEN old ELSE Present(<<>>)

\* Mutant of WriteAll: the bytes replace the destination's contents.
WriteOver(old, bytes) == Present(bytes)

\* write_all of n bytes onto the destination.
WriteAll(old, bytes) == Present(Contents(old) \o bytes)

Event(op, f, arg) == [op |-> op, file |-> f, arg |-> arg]

Logged(op, f) == \E k \in 1..Len(log) : log[k].op = op /\ log[k].file = f

\* ------------------------------------------------------- ends of a run
\* download_model returns Err from step `stage`.
Fail(stage, f) ==
  /\ pc' = "Err"
  /\ error' = stage
  /\ last' = [failed |-> IF stage = "download_file" THEN f ELSE 0,
              saved |-> stage = "download_file" /\ Logged("save_etag", f),
              same |-> TRUE]

\* Mutant of PushPath: the loop is left after its first iteration.
PushPathBreak ==
  /\ paths' = Append(paths, filename)
  /\ i' = i + 1
  /\ pc' = "save_manifest"

\* The loop body ends with paths.push(file_path); the loop goes on to the
\* next entry, or to save_manifest after the last one.
PushPath ==
  /\ paths' = Append(paths, filename)
  /\ i' = i + 1
  /\ pc' = IF i + 1 > Len(manifest.gguf_files) THEN "save_manifest" ELSE "fetch_etag"

\* Mutant of IsComplete: a copy of exactly the declared size is not complete.
IsCompleteStrict(size, declared) == size > declared

\* existing_size >= gguf_file.size: the local copy is accepted as complete.
IsComplete(size, declared) == size >= declared

\* Mutant of LeftOnDisk: the partial file is removed.
Removed(dest) == Absent

\* What a failed transfer leaves of the destination: download_file returns
\* the error and does not clean up.
LeftOnDisk(dest) == dest

Running == pc \notin {"idle", "Ok", "Err"}

\* ======================================================= helper functions
\* The helpers of the engine are studied one call at a time: `input` holds
\* the arguments, `output` the function called and what it returned.  The
\* engine itself is at rest meanwhile.
engine == <<registry, cache, locals, pc, error, log, last, empty_at_start>>

AtRest ==
  /\ remote = [f \in Files |-> 1]
  /\ nfiles = 0
  /\ linked = FALSE
  /\ probe_ok = TRUE
  /\ content = [f \in Files |-> Absent]
  /\ etagFile = [f \in Files |-> Absent]
  /\ manifestFile = Absent
  /\ pc = "idle"
  /\ manifest = NoManifest
  /\ i = 0
  /\ remote_etag = <<>>
  /\ resume_from = 0
  /\ response = NoResponse
  /\ paths = <<>>
  /\ error = ""
  /\ log = <<>>
  /\ last = NoLast
  /\ empty_at_start = TRUE

Returned(fn, value) == [fn |-> fn, value |-> value]

\* Option and Result values.
None == <<>>
Some(x) == <<x>>
IsSome(o) == o # <<>>
Unwrap(o) == o[1]
Ok(v) == [ok |-> TRUE, value |-> v]
Err(e) == [ok |-> FALSE, value |-> e]

\* A string is a sequence of pieces of text; Strings(alphabet, n) are the
\* strings of at most n pieces.
Strings(alphabet, n) == UNION {[1..k -> alphabet] : k \in 0..n}

\* Mutant of split_once: as s.split(piece) read up to its second part, which
\* drops what follows a second occurrence.
split_once_dropping_rest(s, piece) ==
  IF \E k \in 1..Len(s) : s[k] = piece
    THEN LET k == CHOOSE k \in 1..Len(s) :
                    s[k] = piece /\ \A j \in 1..(k - 1) : s[j] # piece
             after == SubSeq(s, k + 1, Len(s))
             stop == IF \E j \in 1..Len(after) : after[j] = piece
                       THEN CHOOSE j \in 1..Len(after) :
                              after[j] = piece /\ \A h \in 1..(j - 1) : after[h] # piece
                       ELSE Len(after) + 1
         IN <<<<SubSeq(s, 1, k - 1), SubSeq(after, 1, stop - 1)>>>>
    ELSE <<>>

\* Mutant of split_once: the split is at the last occurrence.
split_once_from_right(s, piece) ==
  IF \E k \in 1..Len(s) : s[k] = piece
    THEN LET k == CHOOSE k \in 1..Len(s) :
                    s[k] = piece /\ \A j \in (k + 1)..Len(s) : s[j] # piece
         IN <<<<SubSeq(s, 1, k - 1), SubSeq(s, k + 1, Len(s))>>>>
    ELSE <<>>

\* str::split_once(piece): the text before and after the first occurrence.
split_once(s, piece) ==
  IF \E k \in 1..Len(s) : s[k] = piece
    THEN LET k == CHOOSE k \in 1..Len(s) :
                    s[k] = piece /\ \A j \in 1..(k - 1) : s[j] # piece
         IN Some(<<SubSeq(s, 1, k - 1), SubSeq(s, k + 1, Len(s))>>)
    ELSE None

\* str::rsplit_once(piece): the text before and after the last occurrence.
rsplit_once(s, piece) ==
  IF \E k \in 1..Len(s) : s[k] = piece
    THEN LET k == CHOOSE k \in 1..Len(s) :
                    s[k] = piece /\ \A j \in (k + 1)..Len(s) : s[j] # piece
         IN Some(<<SubSeq(s, 1, k - 1), SubSeq(s, k + 1, Len(s))>>)
    ELSE None

\* str::strip_suffix(piece) and str::ends_with(piece).
strip_suffix(s, piece) ==
  IF Len(s) > 0 /\ s[Len(s)] = piece THEN Some(SubSeq(s, 1, Len(s) - 1)) ELSE None

ends_with(s, piece) == Len(s) > 0 /\ s[Len(s)] = piece

\* ------------------------------------------------------- shard_count
\* The pieces file names are written with.  A piece of digits stands for the
\* digits it shows.
DigitPieces == {"00001", "00002", "7"}
FilePieces == {"m", "n", "-", "+", "-of-", ".gguf", ".md"} \cup DigitPieces

DigitsOf(piece) ==
  CASE piece = "00001" -> <<0, 0, 0, 0, 1>>
    [] piece = "00002" -> <<0, 0, 0, 0, 2>>
    [] piece = "7" -> <<7>>

\* A number is kept as its decimal digits without leading zeros, so that it
\* is not bounded by the model checker's integers.
RECURSIVE StripZeros(_)
StripZeros(d) == IF Len(d) > 1 /\ d[1] = 0 THEN StripZeros(Tail(d)) ELSE d

RECURSIVE ConcatDigits(_)
ConcatDigits(t) == IF t = <<>> THEN <<>> ELSE DigitsOf(t[1]) \o ConcatDigits(Tail(t))

\* usize::MAX of a 64-bit target, 18446744073709551615.
UsizeMax == <<1, 8, 4, 4, 6, 7, 4, 4, 0, 7, 3, 7, 0, 9, 5, 5, 1, 6, 1, 5>>

NumberLeq(a, b) ==
  \/ Len(a) < Len(b)
  \/ /\ Len(a) = Len(b)
     /\ \/ a = b
        \/ \E k \in 1..Len(a) :
             a[k] < b[k] /\ \A j \in 1..(k - 1) : a[j] = b[j]

\* str::parse::<usize>(): an optional '+', then one or more decimal digits
\* whose value fits a usize.
parse_usize(t) ==
  LET body == IF Len(t) > 0 /\ t[1] = "+" THEN Tail(t) ELSE t IN
  IF Len(body) > 0 /\ \A k \in 1..Len(body) : body[k] \in DigitPieces
    THEN LET n == StripZeros(ConcatDigits(body)) IN
         IF NumberLeq(n, UsizeMax) THEN Ok(n) ELSE Err("ParseIntError")
    ELSE Err("ParseIntError")

\* fn shard_count(filename: &str) -> Option<usize>
shard_count(file) ==
  LET stem == strip_suffix(file, ".gguf") IN
  IF ~IsSome(stem) THEN None ELSE
  LET of_part == rsplit_once(Unwrap(stem), "-of-") IN
  IF ~IsSome(of_part) THEN None ELSE
  LET total == parse_usize(Unwrap(of_part)[2]) IN
  IF total.ok THEN Some(total.value) ELSE None

MaxPieces == 6       \* longest file name given to shard_count, in pieces

InitShardCount ==
  /\ AtRest
  /\ input \in Strings(FilePieces \ {"n", ".md"}, MaxPieces)
  /\ output = NotCalled

CallShardCount ==
  /\ output = NotCalled
  /\ output' = Returned("shard_count", shard_count(input))
  /\ UNCHANGED <<engine, input>>

NextShardCount == CallShardCount

SpecShardCount == InitShardCount /\ [][NextShardCount]_vars

\* ------------------------------------------------------- fetch_manifest
\* Byte order of the pieces ('+' < '-' < '.' < digits < letters), and the
\* order of strings it gives (str's Ord).
PieceOrder == <<"+", "-", "-of-", ".gguf", ".md", "00001", "00002", "7", "m", "n">>
PieceRank(piece) == CHOOSE k \in 1..Len(PieceOrder) : PieceOrder[k] = piece

StrLess(a, b) ==
  \/ Len(a) < Len(b) /\ a = SubSeq(b, 1, Len(a))
  \/ \E k \in 1..Len(a) :
       /\ k <= Len(b)
       /\ PieceRank(a[k]) < PieceRank(b[k])
       /\ \A j \in 1..(k - 1) : a[j] = b[j]

\* The file a manifest response may declare, and the paths a directory of
\* the repository may hold: the two shards, another model file, a text file.
SingleName == <<"m", ".gguf">>
FirstShard == <<"m", "-", "00001", "-of-", "00002", ".gguf">>
SecondShard == <<"m", "-", "00002", "-of-", "00002", ".gguf">>
OtherModel == <<"n", ".gguf">>
Readme == <<"n", ".md">>

DeclaredNames == {SingleName, FirstShard}
ListedPaths == {FirstShard, SecondShard, OtherModel, Readme}

MaxEntries == 3      \* most entries in a listing response

\* struct TreeEntry { path, size }; a listing names each path once.
TreeEntries == {[path |-> path, size |-> Len(path)] : path \in ListedPaths}

Listings ==
  {l \in Strings(TreeEntries, MaxEntries) :
     \A j, k \in 1..Len(l) : j # k => l[j].path # l[k].path}

\* Mutant of SortByFilename: the entries stay in the listing's order.
Unsorted(files) == files

\* gguf_files.sort_by_key(|file| file.filename.clone()): a stable sort.
RECURSIVE SortByFilename(_)
SortByFilename(files) ==
  IF files = <<>> THEN <<>> ELSE
  LET rest == SortByFilename(SubSeq(files, 1, Len(files) - 1))
      x == files[Len(files)]
      keep == Cardinality({k \in 1..Len(rest) : ~StrLess(x.filename, rest[k].filename)})
  IN SubSeq(rest, 1, keep) \o <<x>> \o SubSeq(rest, keep + 1, Len(rest))

\* .filter(|entry| entry.path.ends_with(".gguf")).map(|entry| GgufFile {..})
TreeFile(entry) == [filename |-> entry.path, size |-> entry.size]

GgufEntries(entries) ==
  LET kept == SelectSeq(entries, LAMBDA entry : ends_with(entry.path, ".gguf"))
  IN [k \in 1..Len(kept) |-> TreeFile(kept[k])]

\* fn fetch_tree_files: the listing request, then filter, map and sort.
fetch_tree_files(listing_ok, entries) ==
  IF ~listing_ok THEN Err("Http") ELSE Ok(SortByFilename(GgufEntries(entries)))

\* fn fetch_manifest: the Manifest's gguf_files, or the error.
fetch_manifest(in) ==
  IF ~in.manifest_ok THEN Err("Http") ELSE
  IF ~IsSome(in.gguf_file) THEN Err("NoGgufFile") ELSE
  LET gguf_file_info == Unwrap(in.gguf_file) IN
  IF IsSome(shard_count(gguf_file_info.rfilename))
    THEN fetch_tree_files(in.listing_ok, in.entries)
    ELSE Ok(<<[filename |-> gguf_file_info.rfilename, size |-> gguf_file_info.size]>>)

\* The registry's answers to the manifest request and to the listing request.
ManifestAnswers ==
  {[manifest_ok |-> FALSE, gguf_file |-> None]}
    \cup {[manifest_ok |-> TRUE, gguf_file |-> g] :
            g \in {None} \cup {Some([rfilename |-> r, size |-> Len(r)]) :
                                 r \in DeclaredNames}}

ListingAnswers ==
  {[listing_ok |-> FALSE, entries |-> <<>>]}
    \cup {[listing_ok |-> TRUE, entries |-> l] : l \in Listings}

InitManifest ==
  /\ AtRest
  /\ \E m \in ManifestAnswers, l \in ListingAnswers :
       input = [manifest_ok |-> m.manifest_ok, gguf_file |-> m.gguf_file,
                listing_ok |-> l.listing_ok, entries |-> l.entries]
  /\ output = NotCalled

CallFetchManifest ==
  /\ output = NotCalled
  /\ output' = Returned("fetch_manifest", fetch_manifest(input))
  /\ UNCHANGED <<engine, input>>

NextManifest == CallFetchManifest

SpecManifest == InitManifest /\ [][NextManifest]_vars

\* ------------------------------------------------------- ModelRef
\* The characters identifiers are written with: a letter and the two
\* separators.
RefPieces == {"a", "/", ":"}

MaxRefLen == 5       \* longest identifier given to from_str, in characters

Identifiers == Strings(RefPieces, MaxRefLen)

\* impl FromStr for ModelRef
from_str(s) ==
  LET repo_tag == split_once(s, ":") IN
  IF ~IsSome(repo_tag) THEN Err("MissingTag") ELSE
  LET repo == Unwrap(repo_tag)[1]
      tag == Unwrap(repo_tag)[2]
      owner_model == split_once(repo, "/") IN
  IF ~IsSome(owner_model) THEN Err("MissingOwner") ELSE
  Ok([model |-> Unwrap(owner_model)[2], owner |-> Unwrap(owner_model)[1], tag |-> tag])

\* impl fmt::Display for ModelRef: "{}/{}:{}" of owner, model, tag.
to_string(model_ref) ==
  model_ref.owner \o <<"/">> \o model_ref.model \o <<":">> \o model_ref.tag

InitRef ==
  /\ AtRest
  /\ input \in Identifiers
  /\ output = NotCalled

\* model.parse::<ModelRef>()
CallFromStr ==
  /\ output = NotCalled
  /\ output' = Returned("from_str", from_str(input))
  /\ UNCHANGED <<engine, input>>

\* The parsed reference is displayed.
CallToString ==
  /\ output.fn = "from_str"
  /\ output.value.ok
  /\ output' = Returned("to_string", to_string(output.value.value))
  /\ UNCHANGED <<engine, input>>

NextRef == CallFromStr \/ CallToString

SpecRef == InitRef /\ [][NextRef]_vars

\* ------------------------------------------------------- cache_filename
\* cache_filename on the text of its arguments (the engine above numbers the
\* files of one reference and needs no text).
\* gguf_file.replace('/', "_")
Flatten(s) == [k \in 1..Len(s) |-> IF s[k] = "/" THEN "_" ELSE s[k]]

\* format!("{}_{}_{}", model_ref.owner, model_ref.model, flat_gguf)
cache_filename_str(model_ref, file) ==
  model_ref.owner \o <<"_">> \o model_ref.model \o <<"_">> \o Flatten(file)

MaxNameLen == 2      \* longest owner, model or file name, in characters

\* Owner and model are non-empty and without separators of the reference;
\* an artifact file name may have a subdirectory.
NameTexts == Strings({"a", "_"}, MaxNameLen) \ {<<>>}
FileTexts == Strings({"a", "_", "/"}, MaxNameLen) \ {<<>>}

CacheNameArgs ==
  {[owner |-> o, model |-> m, file |-> f] :
     o \in NameTexts, m \in NameTexts, f \in FileTexts}

InitCacheName ==
  /\ AtRest
  /\ input \in CacheNameArgs
  /\ output = NotCalled

CallCacheFilename ==
  /\ output = NotCalled
  /\ output' = Returned("cache_filename",
                        cache_filename_str([owner |-> input.owner, model |-> input.model],
                                           input.file))
  /\ UNCHANGED <<engine, input>>

NextCacheName == CallCacheFilename

SpecCacheName == InitCacheName /\ [][NextCacheName]_vars

\* ------------------------------------------------------- default_headers
\* The characters of a credential: a visible character, a space, a line
\* feed, which no header value may hold, and a byte that is no Unicode.
TokenPieces == {"t", " ", "LF", "0xFF"}

MaxTokenLen == 4     \* longest value of HF_TOKEN, in characters

\* The values of the endpoint variables: two addresses and the same byte.
UrlPieces == {"https://model.example.com", "https://hf.example.com", "0xFF"}

MaxUrlLen == 1       \* longest value of an endpoint variable, in pieces

\* The environment: a variable is unset (None) or set to a value, which may
\* be empty.
Environments ==
  {[HF_TOKEN |-> t, MODEL_ENDPOINT |-> m, HF_ENDPOINT |-> h] :
     t \in {None} \cup {Some(s) : s \in Strings(TokenPieces, MaxTokenLen)},
     m \in {None} \cup {Some(s) : s \in Strings(UrlPieces, MaxUrlLen)},
     h \in {None} \cup {Some(s) : s \in Strings(UrlPieces, MaxUrlLen)}}

\* env::var: the value of a variable that is set to valid Unicode.
IsUnicode(s) == \A k \in 1..Len(s) : s[k] # "0xFF"

env_var(value) ==
  IF ~IsSome(value) THEN Err("NotPresent") ELSE
  IF ~IsUnicode(Unwrap(value)) THEN Err("NotUnicode") ELSE Ok(Unwrap(value))

\* HeaderValue::from_str (str::parse): visible ASCII, space and tab only.
IsHeaderValue(s) == \A k \in 1..Len(s) : s[k] # "LF"

\* fn default_headers() -> HeaderMap; parse().unwrap() panics on a value
\* that is no header value.
default_headers(env) ==
  IF env_var(env.HF_TOKEN).ok
    THEN LET token == env_var(env.HF_TOKEN).value
             value == <<"Bearer ">> \o token IN
         IF IsHeaderValue(value)
           THEN Ok([user_agent |-> Some(<<"llama-cpp">>), authorization |-> Some(value)])
           ELSE Err("panic")
    ELSE Ok([user_agent |-> Some(<<"llama-cpp">>), authorization |-> None])

InitEnv ==
  /\ AtRest
  /\ input \in Environments
  /\ output = NotCalled

CallDefaultHeaders ==
  /\ output = NotCalled
  /\ output' = Returned("default_headers", default_headers(input))
  /\ UNCHANGED <<engine, input>>

\* const DEFAULT_ENDPOINT
DEFAULT_ENDPOINT == <<"https://huggingface.co">>

\* Mutant of get_model_endpoint: HF_ENDPOINT is looked up first.
get_model_endpoint_hf_first(env) ==
  IF env_var(env.HF_ENDPOINT).ok THEN env_var(env.HF_ENDPOINT).value ELSE
  IF env_var(env.MODEL_ENDPOINT).ok THEN env_var(env.MODEL_ENDPOINT).value ELSE
  DEFAULT_ENDPOINT

\* env::var("MODEL_ENDPOINT").or_else(|_| env::var("HF_ENDPOINT"))
\*   .unwrap_or_else(|_| DEFAULT_ENDPOINT.to_string())
get_model_endpoint(env) ==
  IF env_var(env.MODEL_ENDPOINT).ok THEN env_var(env.MODEL_ENDPOINT).value ELSE
  IF env_var(env.HF_ENDPOINT).ok THEN env_var(env.HF_ENDPOINT).value ELSE
  DEFAULT_ENDPOINT

CallGetModelEndpoint ==
  /\ output = NotCalled
  /\ output' = Returned("get_model_endpoint", get_model_endpoint(input))
  /\ UNCHANGED <<engine, input>>

NextEnv == CallDefaultHeaders \/ CallGetModelEndpoint

SpecEnv == InitEnv /\ [][NextEnv]_vars

\* ------------------------------------------------------- etag_matches
\* etag_matches and save_etag called on their own, on a cache directory whose
\* sidecars are absent, hold an entity tag, or hold bytes that are no text.
ETags == {<<>>} \cup {ETagOf(v) : v \in Versions}

\* fn save_etag: the sidecars after fs::write succeeded.
save_etag(name, etag) == [etagFile EXCEPT ![name] = Present(etag)]

CallSaveEtag ==
  /\ \E f \in Files, etag \in ETags :
       /\ input' = [filename |-> f, etag |-> etag]
       /\ \/ /\ etagFile' = save_etag(f, etag)
             /\ output' = Returned("save_etag", Ok(<<>>))
          \/ /\ UNCHANGED etagFile
             /\ output' = Returned("save_etag", Err("FileWrite"))
  /\ UNCHANGED <<registry, content, manifestFile, locals, pc, error, log, last,
                 empty_at_start>>

CallEtagMatches ==
  /\ \E f \in Files, etag \in ETags :
       /\ input' = [filename |-> f, etag |-> etag]
       /\ output' = Returned("etag_matches", etag_matches(f, etag))
  /\ UNCHANGED engine

\* Something other than the engine removes a sidecar or overwrites it with
\* bytes that are no text.
Damage ==
  /\ \E f \in Files, file \in {Absent, Present(NotUtf8)} :
       etagFile' = [etagFile EXCEPT ![f] = file]
  /\ input' = <<>>
  /\ output' = NotCalled
  /\ UNCHANGED <<registry, content, manifestFile, locals, pc, error, log, last,
                 empty_at_start>>

InitEtag ==
  /\ AtRest
  /\ input = <<>>
  /\ output = NotCalled

NextEtag == CallSaveEtag \/ CallEtagMatches \/ Damage

SpecEtag == InitEtag /\ [][NextEtag]_vars

\* ======================================================= the engine
\* ------------------------------------------------------- download_model
\* download_model is called: the reference parses and the clients are built.
Invoke ==
  /\ ~Running
  /\ pc' = "fetch_manifest"
  /\ manifest' = NoManifest
  /\ i' = 0
  /\ remote_etag' = <<>>
  /\ resume_from' = 0
  /\ response' = NoResponse
  /\ paths' = <<>>
  /\ error' = ""
  /\ log' = <<>>
  /\ empty_at_start' = CacheEmpty
  /\ UNCHANGED <<registry, cache, last>>
  /\ UNCHANGED pure

\* The identifiers from_str rejects, by the error it gives.
ReferenceErrors == {from_str(s).value : s \in {x \in Identifiers : ~from_str(x).ok}}

\* Mutant of Reject: the manifest request is sent before the parse result is
\* looked at.
RejectLate(e) ==
  /\ pc' = "Err"
  /\ error' = e
  /\ log' = <<Event("GET", 0, NoRange)>>

\* let model_ref: ModelRef = model.parse()?; returns the error of from_str.
Reject(e) ==
  /\ pc' = "Err"
  /\ error' = e
  /\ log' = <<>>

\* download_model is called with an identifier that does not parse.
InvokeInvalid ==
  /\ ~Running
  /\ \E e \in ReferenceErrors : Reject(e)
  /\ manifest' = NoManifest
  /\ i' = 0
  /\ remote_etag' = <<>>
  /\ resume_from' = 0
  /\ response' = NoResponse
  /\ paths' = <<>>
  /\ empty_at_start' = CacheEmpty
  /\ UNCHANGED <<registry, cache, last>>
  /\ UNCHANGED pure

\* let manifest = fetch_manifest(&client, &model_ref)?;
FetchManifest ==
  /\ pc = "fetch_manifest"
  /\ \/ /\ manifest' = RemoteManifest
        /\ pc' = "cache_dir"
        /\ UNCHANGED <<error, last>>
     \/ /\ Fail("fetch_manifest", 0)
        /\ UNCHANGED manifest
  /\ UNCHANGED <<registry, cache, i, remote_etag, resume_from, response, paths,
                 log, empty_at_start>>
  /\ UNCHANGED pure

\* The cache directory is created (create_dir_all or get_cache_dir) and the
\* loop over manifest.gguf_files starts.
ResolveCacheDir ==
  /\ pc = "cache_dir"
  /\ \/ /\ i' = 1
        /\ pc' = IF Len(manifest.gguf_files) = 0 THEN "save_manifest" ELSE "fetch_etag"
        /\ UNCHANGED <<error, last>>
     \/ /\ Fail("cache_dir", 0)
        /\ UNCHANGED i
  /\ UNCHANGED <<registry, cache, manifest, remote_etag, resume_from, response,
                 paths, log, empty_at_start>>
  /\ UNCHANGED pure

\* let remote_etag = fetch_etag(&etag_client, &url)?;  fetch_etag returns the
\* header of whatever response send() gave, of any status, and fails only
\* when send() does.
FetchEtag ==
  /\ pc = "fetch_etag"
  /\ log' = Append(log, Event("HEAD", filename, NoRange))
  /\ \/ /\ remote_etag' = ProbedETag(gguf_file.filename)
        /\ pc' = "check"
        /\ UNCHANGED <<error, last>>
     \/ /\ Fail("fetch_etag", filename)
        /\ UNCHANGED remote_etag
  /\ UNCHANGED <<registry, cache, manifest, i, resume_from, response, paths,
                 empty_at_start>>
  /\ UNCHANGED pure

\* The if/else of the loop body: accept the local copy, resume it, or save
\* the new validator and transfer from offset 0.
CheckCache ==
  /\ pc = "check"
  /\ IF Exists(content[filename]) /\ etag_matches(filename, remote_etag)
       THEN /\ IF IsComplete(existing_size(filename), gguf_file.size)
                 THEN /\ PushPath
                      /\ UNCHANGED <<resume_from, error, last>>
                 ELSE /\ resume_from' = existing_size(filename)
                      /\ pc' = "download_file"
                      /\ UNCHANGED <<i, paths, error, last>>
            /\ UNCHANGED <<etagFile, log>>
       ELSE \/ /\ etagFile' = [etagFile EXCEPT ![filename] = Present(remote_etag)]
               /\ log' = Append(log, Event("save_etag", filename, NoRange))
               /\ resume_from' = 0
               /\ pc' = "download_file"
               /\ UNCHANGED <<i, paths, error, last>>
            \/ \* fs::write fails
               /\ Fail("save_etag", filename)
               /\ UNCHANGED <<etagFile, i, paths, resume_from, log>>
  /\ UNCHANGED <<registry, content, manifestFile, manifest, remote_etag, response,
                 empty_at_start>>
  /\ UNCHANGED pure

\* download_file up to the streaming loop: the GET is sent, with a Range
\* header when resume_from > 0, and the destination is opened.
DownloadFileOpen ==
  /\ pc = "download_file"
  /\ LET range == RangeHeader(resume_from) IN
     /\ log' = Append(log, Event("GET", filename, range))
     /\ \/ \E is_partial \in PartialAnswers(gguf_file.filename, range) :
             /\ content' = [content EXCEPT
                  ![filename] = OpenDestination(content[filename], is_partial)]
             /\ response' = [is_partial |-> is_partial,
                             start_pos |-> IF is_partial THEN resume_from ELSE 0,
                             body |-> AnswerBody(gguf_file.filename, range, is_partial)]
             /\ pc' = "stream"
             /\ UNCHANGED <<error, last>>
        \/ \* send, error_for_status or the open fails
           /\ Fail("download_file", filename)
           /\ content' = [content EXCEPT ![filename] = LeftOnDisk(content[filename])]
           /\ UNCHANGED response
  /\ UNCHANGED <<registry, etagFile, manifestFile, manifest, i, remote_etag,
                 resume_from, paths, empty_at_start>>
  /\ UNCHANGED pure

\* One turn of download_file's loop: read returns some bytes, which write_all
\* appends; or it returns 0 and download_file returns Ok; or either fails.
DownloadFileStream ==
  /\ pc = "stream"
  /\ \/ /\ response.body = <<>>
        /\ PushPath
        /\ response' = NoResponse
        /\ UNCHANGED <<content, error, last>>
     \/ \E n \in 1..Len(response.body) :
          /\ content' = [content EXCEPT
               ![filename] = WriteAll(content[filename], SubSeq(response.body, 1, n))]
          /\ response' = [response EXCEPT
               !.body = SubSeq(response.body, n + 1, Len(response.body))]
          /\ UNCHANGED <<pc, i, paths, error, last>>
     \/ \* read fails, or write_all fails after n bytes of the chunk
        \E n \in 0..(Len(response.body) - 1) :
          /\ content' = [content EXCEPT
               ![filename] = LeftOnDisk(WriteAll(content[filename],
                                                 SubSeq(response.body, 1, n)))]
          /\ Fail("download_file", filename)
          /\ UNCHANGED <<i, paths, response>>
     \/ \* read fails after the last byte
        /\ response.body = <<>>
        /\ content' = [content EXCEPT ![filename] = LeftOnDisk(content[filename])]
        /\ Fail("download_file", filename)
        /\ UNCHANGED <<i, paths, response>>
  /\ UNCHANGED <<registry, etagFile, manifestFile, manifest, remote_etag,
                 resume_from, log, empty_at_start>>
  /\ UNCHANGED pure

\* Mutant of ManifestBody: the resolved file list is written, not the body.
ManifestFileList(m) == [k \in 1..Len(m.gguf_files) |-> m.gguf_files[k].filename]

\* What save_manifest writes: the raw body of the manifest response.
ManifestBody(m) == m.raw_json

\* save_manifest(&cache_dir, &model_ref, &manifest.raw_json)?; Ok(paths)
SaveManifest ==
  /\ pc = "save_manifest"
  /\ log' = Append(log, Event("save_manifest", 0, NoRange))
  /\ \/ /\ manifestFile' = Present(ManifestBody(manifest))
        /\ pc' = "Ok"
        /\ last' = [failed |-> 0, saved |-> FALSE, same |-> TRUE]
        /\ UNCHANGED error
     \/ \* fs::write fails
        /\ Fail("save_manifest", 0)
        /\ UNCHANGED manifestFile
  /\ UNCHANGED <<registry, content, etagFile, locals, empty_at_start>>
  /\ UNCHANGED pure

\* ------------------------------------------------------- the registry
\* The process that ran download_model has exited: nothing is left of its
\* locals when the registry changes.
Exited ==
  /\ pc' = "idle"
  /\ manifest' = NoManifest
  /\ i' = 0
  /\ remote_etag' = <<>>
  /\ resume_from' = 0
  /\ response' = NoResponse
  /\ paths' = <<>>
  /\ error' = ""
  /\ log' = <<>>
  /\ empty_at_start' = CacheEmpty

\* Between two invocations the registry publishes version v of file f.
PublishVersion(f, v) ==
  /\ ~Running
  /\ remote[f] # v
  /\ remote' = [remote EXCEPT ![f] = v]
  /\ last' = [last EXCEPT !.same = FALSE]
  /\ Exited
  /\ UNCHANGED <<nfiles, linked, probe_ok, cache>>
  /\ UNCHANGED pure

\* Between two invocations the tag comes to resolve to n artifact files.
ChangeListing(n) ==
  /\ ~Running
  /\ nfiles # n
  /\ nfiles' = n
  /\ last' = [last EXCEPT !.same = FALSE]
  /\ Exited
  /\ UNCHANGED <<remote, linked, probe_ok, cache>>
  /\ UNCHANGED pure

\* Between two invocations the registry (or the mirror addressed) starts or
\* stops sending the x-linked-etag header.
ChangeHeader ==
  /\ ~Running
  /\ probe_ok
  /\ linked' = ~linked
  /\ last' = [last EXCEPT !.same = FALSE]
  /\ Exited
  /\ UNCHANGED <<remote, nfiles, probe_ok, cache>>
  /\ UNCHANGED pure

\* Between two invocations the registry starts or stops answering the HEAD
\* requests with a failure status (4xx, 5xx); such an answer carries no
\* x-linked-etag header.
ChangeProbeStatus ==
  /\ ~Running
  /\ ~linked
  /\ probe_ok' = ~probe_ok
  /\ last' = [last EXCEPT !.same = FALSE]
  /\ Exited
  /\ UNCHANGED <<remote, nfiles, linked, cache>>
  /\ UNCHANGED pure

Next ==
  \/ Invoke
  \/ InvokeInvalid
  \/ FetchManifest
  \/ ResolveCacheDir
  \/ FetchEtag
  \/ CheckCache
  \/ DownloadFileOpen
  \/ DownloadFileStream
  \/ SaveManifest
  \/ \E f \in Files, v \in Versions : PublishVersion(f, v)
  \/ \E n \in 0..NumFiles : ChangeListing(n)
  \/ ChangeHeader
  \/ ChangeProbeStatus

Spec == Init /\ [][Next]_vars

TypeOK ==
  /\ remote \in [Files -> Versions]
  /\ nfiles \in 0..NumFiles
  /\ linked \in BOOLEAN /\ probe_ok \in BOOLEAN
  /\ pc \in {"idle", "Ok", "Err", "fetch_manifest", "cache_dir", "fetch_etag",
             "check", "download_file", "stream", "save_manifest"}
  /\ \A f \in Files : Exists(content[f]) => Len(Contents(content[f])) <= MaxSize

\* ======================================================= properties

Count(op, f) == Cardinality({k \in 1..Len(log) : log[k].op = op /\ log[k].file = f})

\* This step is CheckCache accepting the local copy of the current file.
AcceptStep == pc = "check" /\ paths' # paths

\* This step writes, or tries to write, the manifest sidecar.
ManifestWriteStep == pc = "save_manifest" /\ pc' # pc

\* C1: the manifest sidecar is written only after every file of the manifest
\* was accepted as complete or transferred successfully (each is in paths, in
\* manifest order, and its content file holds at least the declared bytes);
\* an invocation whose probe or transfer failed has written no manifest.
C1_ManifestAfterAllFiles ==
  /\ [][(manifestFile' # manifestFile \/ ManifestWriteStep) =>
          /\ pc = "save_manifest"
          /\ Len(paths) = Len(manifest.gguf_files)
          /\ \A k \in 1..Len(manifest.gguf_files) :
               /\ paths[k] = cache_filename(manifest.gguf_files[k].filename)
               /\ Exists(content[paths[k]])
               /\ Len(Contents(content[paths[k]])) >= manifest.gguf_files[k].size]_vars
  /\ [](error \in {"fetch_etag", "download_file"} => ~Logged("save_manifest", 0))

\* C1 witness: a two-file manifest whose files were both transferred, then
\* the manifest sidecar written.
C1_Witness ==
  /\ pc = "Ok"
  /\ Len(manifest.gguf_files) = 2
  /\ Count("GET", 1) = 1 /\ Count("GET", 2) = 1
  /\ manifestFile = Present(manifest.raw_json)

\* C2: after any sequence of invocations, a content file that has a validator
\* sidecar has in it the entity tag of the version whose bytes were written
\* last: that version's x-linked-etag, or the empty tag of an answer without
\* the header.
C2_ValidatorIsOfLastWrite ==
  ~Running =>
    \A f \in Files :
      (Exists(content[f]) /\ Exists(etagFile[f]) /\ Len(Contents(content[f])) > 0) =>
        Contents(etagFile[f]) \in
          {ETagOf(Contents(content[f])[Len(Contents(content[f]))][1]), <<>>}

\* C3: after an invocation that saved a new validator for a file and then
\* failed in its transfer, the next invocation accepts the local copy without
\* a transfer only if its bytes are those of the probed remote version
\* (stated for a registry that sends the entity tag header).
C3_StaleNeverAccepted ==
  [][(AcceptStep /\ linked /\ last.saved /\ last.failed = filename) =>
       Contents(content[filename]) = BodyOf(remote[gguf_file.filename])]_vars

\* This step sends a content GET.
GetStep == Len(log') > Len(log) /\ log'[Len(log')].op = "GET"

\* C4: with an empty probed entity tag the stored validator never matches:
\* the file is fetched again from offset 0 by every invocation.
C4_EmptyTagAlwaysRefetches ==
  [][(pc = "check" /\ remote_etag = <<>>) =>
       \/ pc' = "Err"
       \/ /\ pc' = "download_file"
          /\ resume_from' = 0
          /\ log'[Len(log')] = Event("save_etag", filename, NoRange)]_vars

\* The local copy of the current file is absent, or its stored validator is
\* absent or differs from the probed entity tag.
NotCurrent ==
  \/ ~Exists(content[filename])
  \/ ~Exists(etagFile[filename])
  \/ Contents(etagFile[filename]) # remote_etag

\* C5: for a file that is not current, the probed entity tag is in the
\* validator sidecar before the content GET is issued, the GET carries no
\* Range header, and the destination is created or truncated.
C5_ValidatorBeforeTransfer ==
  [][/\ (pc = "check" /\ NotCurrent) =>
          /\ ~GetStep
          /\ pc' \in {"download_file", "Err"}
          /\ pc' = "Err" => error' = "save_etag" /\ log' = log
          /\ pc' = "download_file" =>
               /\ etagFile'[filename] = Present(remote_etag)
               /\ resume_from' = 0
     /\ (pc = "download_file" /\ Logged("save_etag", filename)) =>
          /\ etagFile[filename] = Present(remote_etag)
          /\ log' = Append(log, Event("GET", filename, NoRange))
          /\ pc' = "stream" =>
               /\ content'[filename] = Present(<<>>)
               /\ response'.start_pos = 0
               /\ response'.body = BodyOf(remote[gguf_file.filename])]_vars

\* C5 witness: a stale local copy was truncated by the transfer that
\* followed the write of the new validator.
C5_Witness ==
  /\ pc = "stream"
  /\ ~empty_at_start
  /\ Logged("save_etag", filename)
  /\ log[Len(log)] = Event("GET", filename, NoRange)
  /\ content[filename] = Present(<<>>)
  /\ response.body = BodyOf(remote[gguf_file.filename])
  /\ last.failed = 0

\* C6: a local copy with a matching validator and at least the declared size
\* is accepted after the HEAD probe: no content GET, content file and
\* validator unchanged, its path added to the result; and no GET is ever
\* sent for a file that is already in the result.
C6_CompleteCopyAccepted ==
  [][/\ (/\ pc = "check"
         /\ Exists(content[filename])
         /\ Exists(etagFile[filename])
         /\ Contents(etagFile[filename]) = remote_etag
         /\ Len(Contents(content[filename])) >= gguf_file.size) =>
          /\ Logged("HEAD", filename)
          /\ Count("GET", filename) = 0
          /\ log' = log
          /\ content' = content
          /\ etagFile' = etagFile
          /\ paths' = Append(paths, filename)
     /\ GetStep => \A k \in 1..Len(paths) : paths[k] # log'[Len(log')].file]_vars

\* C6 witness: a file is in the result after a HEAD probe and no GET.
C6_Witness ==
  \E k \in 1..Len(paths) :
    /\ Logged("HEAD", paths[k])
    /\ Count("GET", paths[k]) = 0
    /\ Len(Contents(content[paths[k]])) = manifest.gguf_files[k].size

\* The current file has a local copy with a matching validator.
Current ==
  /\ Exists(content[filename])
  /\ Exists(etagFile[filename])
  /\ Contents(etagFile[filename]) = remote_etag

IsPrefix(a, b) == Len(a) <= Len(b) /\ SubSeq(b, 1, Len(a)) = a

\* C7 as stated: a local copy of size s smaller than the declared size, with
\* a matching validator, is fetched by a GET with Range: bytes=s-.
C7_ResumeSendsRange ==
  [][(pc = "download_file" /\ ~Logged("save_etag", filename)) =>
       log' = Append(log, Event("GET", filename,
                                Len(Contents(content[filename]))))]_vars

\* C7 amended: with a matching validator and a local size s, 0 < s < N, the
\* GET carries Range: bytes=s-; on a 206 the received bytes are appended
\* after the s existing bytes, which stay as they were, and the file ends
\* with exactly N bytes.  With s = 0 the GET carries no Range header.
C7_ResumeAppends ==
  [][/\ (pc = "check" /\ Current /\ Len(Contents(content[filename])) < gguf_file.size) =>
          /\ pc' = "download_file"
          /\ resume_from' = Len(Contents(content[filename]))
          /\ log' = log
          /\ content' = content /\ etagFile' = etagFile
     /\ (pc = "download_file" /\ ~Logged("save_etag", filename)) =>
          LET s == Len(Contents(content[filename])) IN
          /\ resume_from = s
          /\ s < gguf_file.size
          /\ log' = Append(log, Event("GET", filename, IF s > 0 THEN s ELSE NoRange))
          /\ (pc' = "stream" /\ response'.is_partial) =>
               /\ s > 0
               /\ content' = content
               /\ response'.start_pos = s
               /\ Len(response'.body) = gguf_file.size - s
     /\ (pc = "stream" /\ response.is_partial) =>
          /\ IsPrefix(Contents(content[filename]), Contents(content'[filename]))
          /\ Len(Contents(content[filename])) >= response.start_pos
          /\ paths' # paths =>
               Len(Contents(content[filename])) = gguf_file.size]_vars

\* C7 witness: a resumed transfer has delivered its last byte after a 206.
C7_Witness ==
  /\ pc = "stream"
  /\ response.is_partial
  /\ response.start_pos > 0
  /\ response.body = <<>>
  /\ ~Logged("save_etag", filename)
  /\ Len(Contents(content[filename])) = gguf_file.size

\* The invocation runs again after a transfer of file last.failed failed,
\* against the registry as it was.
Reinvocation == Running /\ last.failed > 0 /\ last.same

\* C8 as stated: after the transfer of file k failed, the re-invocation
\* against an unchanged remote resumes file k from its local length, not
\* from offset 0.
C8_ResumesFailedFile ==
  [][(Reinvocation /\ pc = "download_file" /\ filename = last.failed) =>
       /\ resume_from > 0
       /\ resume_from = existing_size(filename)]_vars

\* C8 amended: a failing transfer of file k leaves the other files' content
\* and validators, and the bytes written for k, on disk; the re-invocation
\* against an unchanged remote accepts files 1..k-1 without a GET and, for
\* file k, resumes with Range: bytes=s- when 0 < s < N, starts from offset 0
\* when the file is absent or empty, and accepts it when s >= N.
C8_FailureLeavesResumableCache ==
  [][/\ (Running /\ pc' = "Err" /\ error' = "download_file") =>
          /\ etagFile' = etagFile
          /\ \A f \in Files : f # filename => content'[f] = content[f]
          /\ Exists(content[filename]) =>
               /\ Exists(content'[filename])
               /\ IsPrefix(Contents(content[filename]), Contents(content'[filename]))
     /\ (Reinvocation /\ pc = "check" /\ filename < last.failed) =>
          /\ paths' = Append(paths, filename)
          /\ log' = log
          /\ cache' = cache
     /\ (Reinvocation /\ pc = "check" /\ filename = last.failed) =>
          LET s == existing_size(filename) IN
          \/ s >= gguf_file.size /\ paths' = Append(paths, filename) /\ log' = log
          \/ s < gguf_file.size /\ pc' = "download_file" /\ resume_from' = s
          \/ s = 0 /\ pc' = "Err" /\ error' = "save_etag"
     /\ (Reinvocation /\ pc = "download_file" /\ filename = last.failed) =>
          LET s == existing_size(filename) IN
          log' = Append(log, Event("GET", filename, IF s > 0 THEN s ELSE NoRange))]_vars

\* C8 witness: the re-invocation accepted file 1 without a GET and resumed
\* file 2 from its local length.
C8_Witness ==
  /\ Reinvocation
  /\ last.failed = 2
  /\ pc = "stream"
  /\ filename = 2
  /\ paths = <<1>>
  /\ Count("GET", 1) = 0
  /\ response.is_partial
  /\ response.start_pos > 0

\* C9: from an empty cache, a successful invocation for a single-file
\* manifest of declared size N sent exactly one content GET, without a Range
\* header, and left a content file of exactly N bytes, a validator equal to
\* the probed entity tag and a manifest sidecar equal to the raw manifest
\* body; it returns exactly one path.
C9_FreshSingleFileDownload ==
  (pc = "Ok" /\ empty_at_start /\ Len(manifest.gguf_files) = 1) =>
    LET g == manifest.gguf_files[1]
        f == cache_filename(g.filename) IN
    /\ Cardinality({k \in 1..Len(log) : log[k].op = "GET"}) = 1
    /\ \A k \in 1..Len(log) : log[k].op = "GET" => log[k] = Event("GET", f, NoRange)
    /\ Exists(content[f])
    /\ Len(Contents(content[f])) = g.size
    /\ Contents(content[f]) = BodyOf(remote[g.filename])
    /\ etagFile[f] = Present(remote_etag)
    /\ remote_etag = ProbedETag(g.filename)
    /\ manifestFile = Present(manifest.raw_json)
    /\ paths = <<f>>

\* C9 witness: such an invocation has returned Ok.
C9_Witness ==
  /\ pc = "Ok"
  /\ empty_at_start
  /\ Len(manifest.gguf_files) = 1
  /\ Len(Contents(content[1])) = MaxSize

\* C10: no step removes a content file, a validator sidecar or the manifest
\* sidecar from the cache directory.
C10_NothingRemoved ==
  [][/\ \A f \in Files :
          /\ Exists(content[f]) => Exists(content'[f])
          /\ Exists(etagFile[f]) => Exists(etagFile'[f])
     /\ Exists(manifestFile) => Exists(manifestFile')]_vars

\* C10 witness: a transfer has failed in a cache that holds a manifest
\* sidecar, and the failed file's content file and validator are on disk.
C10_Witness ==
  /\ pc = "Err"
  /\ error = "download_file"
  /\ Exists(manifestFile)
  /\ Exists(content[filename])
  /\ Exists(etagFile[filename])

\* The file name has the form <stem>-<NNNNN>-of-<MMMMM>.gguf, both indices
\* five digits wide.
FiveDigits == {piece \in DigitPieces : Len(DigitsOf(piece)) = 5}

HasShardForm(s) ==
  /\ Len(s) >= 5
  /\ s[Len(s)] = ".gguf"
  /\ s[Len(s) - 1] \in FiveDigits
  /\ s[Len(s) - 2] = "-of-"
  /\ s[Len(s) - 3] \in FiveDigits
  /\ s[Len(s) - 4] = "-"

\* C15: shard_count returns the shard total M exactly when the file name has
\* the form <stem>-<NNNNN>-of-<MMMMM>.gguf, and none for every other name.
C15_ShardCountExactlyOnPattern ==
  output.fn = "shard_count" =>
    IF HasShardForm(input)
      THEN output.value = Some(StripZeros(DigitsOf(input[Len(input) - 1])))
      ELSE output.value = None

\* The manifest response declares a sharded artifact.
Sharded ==
  /\ input.manifest_ok
  /\ IsSome(input.gguf_file)
  /\ IsSome(shard_count(Unwrap(input.gguf_file).rfilename))

\* C11: for a sharded artifact, fetch_manifest returns an error when the
\* listing cannot be obtained or has no entry whose path ends in .gguf.
C11_EmptyListingIsError ==
  (/\ output.fn = "fetch_manifest"
   /\ Sharded
   /\ \/ ~input.listing_ok
      \/ \A k \in 1..Len(input.entries) : ~ends_with(input.entries[k].path, ".gguf")) =>
    ~output.value.ok

\* C16: for a sharded artifact, the file list is exactly the listing's
\* entries whose path ends in .gguf, in ascending filename order, and every
\* permutation of the listing gives the same list.
C16_ShardListSortedGguf ==
  (output.fn = "fetch_manifest" /\ Sharded /\ input.listing_ok) =>
    /\ output.value.ok
    /\ LET files == output.value.value
           ggufs == {TreeFile(input.entries[k]) : k \in
                       {j \in 1..Len(input.entries) :
                          ends_with(input.entries[j].path, ".gguf")}}
       IN /\ {files[k] : k \in 1..Len(files)} = ggufs
          /\ Len(files) = Cardinality(ggufs)
          /\ \A k \in 1..(Len(files) - 1) :
               StrLess(files[k].filename, files[k + 1].filename)
          /\ \A l \in Listings :
               {l[k] : k \in 1..Len(l)} = {input.entries[k] : k \in 1..Len(input.entries)}
                 => fetch_tree_files(TRUE, l).value = files

\* C16 witness: the listing gave the second shard before the first, and a
\* text file; the list is the two shards in order.
C16_Witness ==
  /\ output.fn = "fetch_manifest"
  /\ Sharded
  /\ input.listing_ok
  /\ Len(input.entries) = 3
  /\ input.entries[1].path = SecondShard
  /\ input.entries[3].path = FirstShard
  /\ output.value.ok
  /\ Len(output.value.value) = 2
  /\ output.value.value[1].filename = FirstShard
  /\ output.value.value[2].filename = SecondShard

\* C12: a HEAD probe that fails, by transport error or by a failure status,
\* makes download_model fail at once for that file: no validator is written
\* and no content GET is sent for it, and the HEAD is not sent again.
C12_FailedProbeFailsRun ==
  /\ [][(pc = "fetch_etag" /\ ~probe_ok) =>
          (pc' = "Err" /\ error' = "fetch_etag" /\ cache' = cache)]_vars
  /\ [](error = "fetch_etag" =>
          /\ ~Logged("save_etag", filename)
          /\ Count("GET", filename) = 0
          /\ Count("HEAD", filename) = 1)

\* C13: every ModelRef a successful parse returns has a non-empty owner, a
\* non-empty model and a non-empty tag.
C13_ParsedFieldsNonEmpty ==
  (output.fn = "from_str" /\ output.value.ok) =>
    /\ output.value.value.owner # <<>>
    /\ output.value.value.model # <<>>
    /\ output.value.value.tag # <<>>

\* C19: for every string that parses, displaying the parsed ModelRef as
\* owner/model:tag gives the string back.
C19_ParseDisplayRoundTrip ==
  output.fn = "to_string" => output.value = input

\* C19 witness: a reference with three non-empty fields and a second ':' in
\* its tag was parsed and displayed.
C19_Witness ==
  /\ output.fn = "to_string"
  /\ input = <<"a", "/", "a", ":", ":">>

\* The string has a ':' and no '/' before the first one.
NoOwnerSeparator(s) ==
  \E k \in 1..Len(s) : s[k] = ":" /\ \A j \in 1..(k - 1) : s[j] \notin {":", "/"}

\* C20: parse fails with MissingTag for every string without ':', and with
\* MissingOwner for every string with a ':' and no '/' before the first ':'.
C20_ParseErrors ==
  output.fn = "from_str" =>
    /\ (\A k \in 1..Len(input) : input[k] # ":") =>
         (~output.value.ok /\ output.value.value = "MissingTag")
    /\ NoOwnerSeparator(input) =>
         (~output.value.ok /\ output.value.value = "MissingOwner")

\* C20 witness: MissingOwner for a string whose only '/' follows the ':'.
C20_Witness ==
  /\ output.fn = "from_str"
  /\ input = <<"a", ":", "a", "/", "a">>
  /\ ~output.value.ok
  /\ output.value.value = "MissingOwner"

\* C14: cache_filename is injective: no other (owner, model, file name)
\* triple has the cache name of this one.
C14_CacheFilenameInjective ==
  output.fn = "cache_filename" =>
    \A other \in CacheNameArgs :
      other # input =>
        cache_filename_str([owner |-> other.owner, model |-> other.model],
                           other.file) # output.value

\* C17: the Authorization header is among the default headers only if
\* HF_TOKEN is set to a non-empty value; with the variable unset or empty
\* there is none.
C17_AuthorizationOnlyForNonEmptyToken ==
  (output.fn = "default_headers" /\ output.value.ok) =>
    (IsSome(output.value.value.authorization) =>
       (IsSome(input.HF_TOKEN) /\ Unwrap(input.HF_TOKEN) # <<>>))

\* C18: download_model called with an identifier that does not parse returns
\* the reference error before any request is sent and before anything in the
\* cache directory is created or written.
C18_InvalidReferenceFailsFirst ==
  /\ [][(~Running /\ pc' = "Err") =>
          /\ error' \in {"MissingTag", "MissingOwner"}
          /\ log' = <<>>
          /\ manifest' = NoManifest
          /\ cache' = cache]_vars
  /\ [](error \in {"MissingTag", "MissingOwner"} =>
          (pc = "Err" /\ log = <<>> /\ manifest = NoManifest /\ paths = <<>>))

\* C18 witness: the call was rejected with a cache that holds a content file,
\* a validator and a manifest sidecar.
C18_Witness ==
  /\ pc = "Err"
  /\ error = "MissingTag"
  /\ log = <<>>
  /\ Exists(content[1]) /\ Exists(etagFile[1]) /\ Exists(manifestFile)

\* C21: etag_matches(dir, f, v) is true if and only if the sidecar of f
\* exists and holds exactly the text v: true in the call that directly
\* follows a successful save_etag(dir, f, v), false for a sidecar that is
\* absent, is no text, or holds another value.
C21_MatchesExactlyTheSavedTag ==
  /\ [](output.fn = "etag_matches" =>
          (output.value <=> etagFile[input.filename] = Present(input.etag)))
  /\ [][(output.fn = "save_etag" /\ output.value.ok /\
         output'.fn = "etag_matches" /\ input' = input) => output'.value = TRUE]_vars
  /\ [](output.fn = "etag_matches" /\
        etagFile[input.filename] \in {Absent, Present(NotUtf8)} => output.value = FALSE)

\* C21 witness: a call matched the empty tag against a sidecar that holds
\* it, in a directory where another sidecar is no text.
C21_Witness ==
  /\ output.fn = "etag_matches"
  /\ output.value = TRUE
  /\ input.etag = <<>>
  /\ etagFile[input.filename] = Present(<<>>)
  /\ \E f \in Files : etagFile[f] = Present(NotUtf8)

\* C22 as stated: get_model_endpoint returns the value of MODEL_ENDPOINT when
\* it is set, otherwise the value of HF_ENDPOINT when that is set, otherwise
\* the default.
C22_EndpointPrecedence ==
  output.fn = "get_model_endpoint" =>
    output.value =
      IF IsSome(input.MODEL_ENDPOINT) THEN Unwrap(input.MODEL_ENDPOINT)
      ELSE IF IsSome(input.HF_ENDPOINT) THEN Unwrap(input.HF_ENDPOINT)
      ELSE <<"https://huggingface.co">>

\* The variable is set to valid Unicode text.
SetToText(value) ==
  IsSome(value) /\ \A k \in 1..Len(Unwrap(value)) : Unwrap(value)[k] # "0xFF"

\* C22 amended: get_model_endpoint returns the value of MODEL_ENDPOINT when
\* it is set to valid Unicode text, otherwise the value of HF_ENDPOINT when
\* that is set to valid Unicode text, otherwise the default; a variable set
\* to a value that is not valid Unicode counts as unset.
C22_EndpointPrecedenceOfText ==
  output.fn = "get_model_endpoint" =>
    output.value =
      IF SetToText(input.MODEL_ENDPOINT) THEN Unwrap(input.MODEL_ENDPOINT)
      ELSE IF SetToText(input.HF_ENDPOINT) THEN Unwrap(input.HF_ENDPOINT)
      ELSE <<"https://huggingface.co">>

\* C22 witness: both variables are set, to different addresses, and the
\* value of MODEL_ENDPOINT was returned.
C22_Witness ==
  /\ output.fn = "get_model_endpoint"
  /\ input.MODEL_ENDPOINT = Some(<<"https://model.example.com">>)
  /\ input.HF_ENDPOINT = Some(<<"https://hf.example.com">>)
  /\ output.value = <<"https://model.example.com">>

\* The stem and the total of a file name of the shard form.
ShardStem(s) == SubSeq(s, 1, Len(s) - 5)
ShardTotal(s) == s[Len(s) - 1]

\* The listing holds a file of the shard form with the declared stem and
\* total for each index the total asks for: here, both shards.
DeclaredShardsListed ==
  {FirstShard, SecondShard} \subseteq
    {input.entries[k].path : k \in 1..Len(input.entries)}

\* C23: for a sharded artifact whose manifest declares shard 1 of M, the
\* file list has exactly M files, each of the shard form with the stem and
\* the total of the declared first shard, and no other file of the listed
\* directory (stated for the listings that hold all M declared shards).
C23_OnlyTheDeclaredShards ==
  (output.fn = "fetch_manifest" /\ Sharded /\ input.listing_ok /\
   DeclaredShardsListed) =>
    /\ output.value.ok
    /\ LET declared == Unwrap(input.gguf_file).rfilename
           files == output.value.value
       IN /\ <<Len(files)>> = Unwrap(shard_count(declared))
          /\ \A k \in 1..Len(files) :
               /\ HasShardForm(files[k].filename)
               /\ ShardStem(files[k].filename) = ShardStem(declared)
               /\ ShardTotal(files[k].filename) = ShardTotal(declared)

====
